---- MODULE Spec2Model ----
(***************************************************************************)
(* ShowMyGpx: the street-view viewer (ImageViewer), the resolver           *)
(* (loadStreetViewImage) and the hand-over of the viewpoint sequence to    *)
(* the export dialog.                                                      *)
(*                                                                         *)
(* JavaScript runs one turn at a time: an event handler, a timer callback  *)
(* or the continuation of an await runs to completion, then React renders  *)
(* and runs the effects whose dependencies changed.  One action of the     *)
(* model is one such turn together with the render and the effects it      *)
(* causes.  Indices are 1-based here and 0-based in the source.            *)
(*                                                                         *)
(* Not modelled: the showInfo and showMap toggles of ImageViewer, which    *)
(* no effect depends on, and the unmounting of ImageViewer.                *)
(*                                                                         *)
(* The module holds several specifications over one set of variables:      *)
(* Spec (the viewer), SpecResolve (the resolver called on its own) and     *)
(* SpecPipeline (upload, sampling, placeholder generation and the          *)
(* settings), SpecExport (the export dialog and the two export functions), *)
(* SpecParse (parseGPXContent), SpecCredits (the credit functions of        *)
(* UserService against the database) and SpecHeld (the viewer left alone,   *)
(* with fairness).  Each keeps the variables of the others at rest.         *)
(***************************************************************************)
EXTENDS Integers, Sequences, FiniteSets, Bags, TLC

\* ---------------------------------------------------------------- bounds
\* NumImages: viewpoints in the sequence.  MaxFetches: image loads started in
\* one behaviour of the viewer.  MaxCalls: calls of the resolver on its own.
NumImages == 3
MaxFetches == 3
MaxCalls == 2
\* MaxPoints: track points in an uploaded file.  MaxLon: the track points lie
\* on a grid of two rows (Lats) and MaxLon + 1 columns.
MaxPoints == 3
MaxLon == 2
\* MaxExport: viewpoints in the sequence handed to the export dialog.
\* MaxExportCalls: calls of ExportDialog.handleExport.
MaxExport == 2
MaxExportCalls == 2
\* MaxTrackPoints: trkpt elements in one trk element of a document.
MaxTrackPoints == 2
\* MaxInFlight: image loads in flight at once in the viewer left alone.
MaxInFlight == 3
\* MaxCreditCalls: calls of deductCredits and addCredits.  MaxCredits: the
\* largest balance stored at the start.
MaxCreditCalls == 2
MaxCredits == 2

\* ------------------------------------------------------------- constants
NoUrl == <<>>
NoError == "none"
FetchFailed == "Failed to load Street View image"
NoHeading == -1
NoKey == ""
GoodKey == "key"
ApiKeys == {NoKey, GoodKey}
\* A key that is present but does not have the format of a Google API key.
BadKey == "short"
ResolveKeys == {NoKey, GoodKey, BadKey}
\* Track points lie on a grid whose step is 0.00045 degrees.  With the earth
\* radius of calculateDistance (6371000 m) one step is 50.04 m; lengths are
\* kept in centimetres.
GridStepCm == 5004
Lats == 0..1
Lons == 0..MaxLon
GridPoints == [lat : Lats, lon : Lons]
\* settings.intervalDistance: the options of SettingsPanel, 25 m, 50 m (the
\* default), 100 m and 200 m, in centimetres.
DefaultInterval == 5000
Intervals == {2500, DefaultInterval, 10000, 20000}
NoProgress == <<>>
TooFewPoints == "GPX file must contain at least 2 track points"
NoPlaceholders == "No Street View placeholders could be generated from the route"
NoMetadata == <<>>

\* ------------------------------------------------------------- variables
VARIABLES
    images,          \* useStreetViewProcessor().images, the prop of ImageViewer and ExportDialog
    loadedImages,    \* ImageViewer state: the viewer's viewpoint sequence
    currentIndex,    \* ImageViewer state: the navigation cursor
    isLoadingImage,  \* ImageViewer state
    imageLoaded,     \* ImageViewer state: the <img> element has fired onLoad or onError
    apiKey,          \* settings.apiKey
    showExportDialog,\* MainApp state
    timer,           \* the preloadAdjacent timeout is pending
    tasks,           \* bag of resolutions suspended at "await loadImage(url)"
    fetches,         \* fetches started so far
    done,            \* the completion applied by the last turn: its index and outcome
    himage,          \* resolver harness: the argument of loadStreetViewImage
    hkey,            \* resolver harness: the apiKey argument
    hresult,         \* resolver harness: the record the call returned
    hpc,             \* resolver harness: "idle", "fetching", "returned", "threw"
    hfetched,        \* resolver harness: the call started a fetch
    hcalls,          \* resolver harness: calls made so far
    currentGPXData,  \* MainApp state: the flattened track points of the file, <<>> for null
    settingsIntervalDistance, \* settings.intervalDistance
    intervalDistance,\* processGPXData: the argument of the last call
    progress,        \* useStreetViewProcessor().progress
    isProcessing,    \* useStreetViewProcessor().isProcessing
    error,           \* useStreetViewProcessor().error
    clearTimer,      \* the 2000 ms timeout that clears progress is pending
    pc,              \* processGPXData: "idle", "sampling", "tail", "generating", "await"
    loopIndex,       \* the i of the running for loop
    accumulatedDistance, \* samplePointsAtInterval local
    lastSampledIndex,\* samplePointsAtInterval local
    sampledPoints,   \* samplePointsAtInterval local, then generateStreetViewPlaceholders local
    sampledIndices,  \* for each sampled point, its index in the input
    totalDistance,   \* generateStreetViewPlaceholders local
    streetViewImages,\* generateStreetViewPlaceholders local: the images built so far
    exportOptions,   \* ExportDialog state: format and includeMetadata
    isExporting,     \* MainApp state
    epc,             \* handleExport: "idle", "zipFetch", "zipGenerate", "fileFetch", "fileDelay"
    exportList,      \* the images argument of the running export function
    exportIndex,     \* the i of the running export loop
    zipEntries,      \* the file names added to the images folder of the archive
    zipMetadata,     \* the records of metadata.json in the archive, NoMetadata without it
    saved,           \* the files handed to saveAs, in order
    alerted,         \* alert('Export failed. Please try again.') was shown
    exportCalls,     \* calls of handleExport so far
    gpxDoc,          \* parseGPXContent: the document being parsed
    ppc,             \* parseGPXContent: "idle", "tracks", "returned", "threw"
    trackIndex,      \* extractTracks: the trk element being visited
    pointIndex,      \* extractTracks: the trkpt element being visited
    trackPoints,     \* extractTracks local: the points of the current track
    tracks,          \* extractTracks local, then the tracks of the result
    parseError,      \* the message of the error parseGPXContent threw
    profileExists,   \* user_profiles has a row for the user
    credits,         \* user_profiles.credits of that row
    openingCredits,  \* the value of credits before any call
    transactions,    \* credit_transactions: the bag of the amounts recorded
    creditCalls,     \* the calls of deductCredits and addCredits, each with its locals
    balanceResult    \* what the last getCreditBalance returned and what it had read

viewerVars == <<images, loadedImages, currentIndex, isLoadingImage, imageLoaded,
                apiKey, showExportDialog, timer, tasks, fetches, done>>
harnessVars == <<himage, hkey, hresult, hpc, hfetched, hcalls>>
\* The viewer's variables other than the sequence the pipeline produces.
viewerOwnVars == <<loadedImages, currentIndex, isLoadingImage, imageLoaded,
                   apiKey, showExportDialog, timer, tasks, fetches, done>>
samplerVars == <<loopIndex, accumulatedDistance, lastSampledIndex, sampledPoints,
                 sampledIndices, totalDistance, streetViewImages>>
pipelineVars == <<currentGPXData, settingsIntervalDistance, intervalDistance, progress,
                  isProcessing, error, clearTimer, pc, loopIndex, accumulatedDistance,
                  lastSampledIndex, sampledPoints, sampledIndices, totalDistance,
                  streetViewImages>>
exportVars == <<exportOptions, isExporting, epc, exportList, exportIndex, zipEntries,
                zipMetadata, saved, alerted, exportCalls>>
\* ImageViewer's variables other than the dialog flag of MainApp.
imageViewerVars == <<loadedImages, currentIndex, isLoadingImage, imageLoaded, apiKey,
                     timer, tasks, fetches, done>>
parserVars == <<gpxDoc, ppc, trackIndex, pointIndex, trackPoints, tracks, parseError>>
creditVars == <<profileExists, credits, openingCredits, transactions, creditCalls,
                balanceResult>>
outsideViewer == <<harnessVars, pipelineVars, exportVars, parserVars, creditVars>>
outsideHarness == <<viewerVars, pipelineVars, exportVars, parserVars, creditVars>>
outsidePipeline == <<viewerOwnVars, harnessVars, exportVars, parserVars, creditVars>>
outsideExport == <<images, imageViewerVars, harnessVars, pipelineVars, parserVars,
                   creditVars>>
outsideParser == <<viewerVars, harnessVars, pipelineVars, exportVars, creditVars>>
outsideCredits == <<viewerVars, harnessVars, pipelineVars, exportVars, parserVars>>
vars == <<images, loadedImages, currentIndex, isLoadingImage, imageLoaded,
          apiKey, showExportDialog, timer, tasks, fetches, done,
          himage, hkey, hresult, hpc, hfetched, hcalls,
          currentGPXData, settingsIntervalDistance, intervalDistance, progress,
          isProcessing, error, clearTimer, pc, loopIndex, accumulatedDistance,
          lastSampledIndex, sampledPoints, sampledIndices, totalDistance,
          streetViewImages,
          exportOptions, isExporting, epc, exportList, exportIndex, zipEntries,
          zipMetadata, saved, alerted, exportCalls,
          gpxDoc, ppc, trackIndex, pointIndex, trackPoints, tracks, parseError,
          profileExists, credits, openingCredits, transactions, creditCalls,
          balanceResult>>

\* ------------------------------------------------------------ data model
\* One placeholder as generateStreetViewPlaceholders builds it: no url, no
\* error, loaded = false, isLoading = false.
Placeholder(i) ==
    [id |-> i, coordinates |-> <<i, 0>>, heading |-> 0, pitch |-> 0,
     distance |-> 50 * (i - 1), url |-> NoUrl, error |-> NoError,
     loaded |-> FALSE, isLoading |-> FALSE]

Placeholders == [i \in 1..NumImages |-> Placeholder(i)]

\* The load state a StreetViewImage record stands for.
LoadState(image) ==
    IF image.loaded THEN "Loaded"
    ELSE IF image.isLoading THEN "Loading"
    ELSE IF image.error # NoError THEN "Failed"
    ELSE "Pending"

\* validImages of ImageViewer and of ExportDialog: loaded and error-free.
ValidImages(imgs) ==
    {i \in 1..Len(imgs) : imgs[i].loaded /\ imgs[i].error = NoError}

ValidIds(imgs) == {imgs[i].id : i \in ValidImages(imgs)}

\* ---------------------------------------------------------- the resolver
\* "image.heading || 0"
HeadingOrZero(h) == IF h = NoHeading THEN 0 ELSE h

\* generateStreetViewURL with the default size, fov and pitch.
GenerateStreetViewURL(image, key) ==
    <<image.coordinates[1], image.coordinates[2], HeadingOrZero(image.heading), key>>

\* Length of a key: GoodKey stands for a 39-character key, BadKey for one of
\* 5 characters; both use the characters the format allows.
KeyLength(key) == IF key = GoodKey THEN 39 ELSE IF key = BadKey THEN 5 ELSE 0

\* validateApiKey: /^[A-Za-z0-9_-]{35,45}$/
ValidateApiKey(key) == KeyLength(key) >= 35 /\ KeyLength(key) <= 45

\* A credential check that lets every key pass.
KeyMissingNever(key) == FALSE

\* loadStreetViewImage: "if (!apiKey) throw"
KeyMissing(key) == key = NoKey

\* The guard without its isLoading disjunct.
ShouldFetchLoadedOnly(image) == ~image.loaded

\* loadStreetViewImage: "if (image.loaded || image.isLoading) return image"
ShouldFetch(image) == ~(image.loaded \/ image.isLoading)

\* loadStreetViewImage after the guard: the record it returns when the image
\* load succeeded (ok) or failed.  Both spread updatedImage = {...image,
\* isLoading: true} and overwrite the fields named in the source.
LoadResult(image, key, ok) ==
    IF ok
    THEN [image EXCEPT !.url = GenerateStreetViewURL(image, key),
                       !.loaded = TRUE, !.isLoading = FALSE]
    ELSE [image EXCEPT !.loaded = FALSE, !.isLoading = FALSE, !.error = FetchFailed]

\* ------------------------------------------------------------ the viewer
\* Guard of loadCurrentImage and the filter of preloadAdjacent.
NeedsLoad(image) == ~image.loaded /\ ~image.isLoading

Task(kind, index, image, key, queue) ==
    [kind |-> kind, index |-> index, image |-> image, apiKey |-> key, queue |-> queue]

\* Number of resolutions in flight for viewpoint i.
InFlight(bag, i) ==
    LET ts == {t \in BagToSet(bag) : t.index = i}
        Sum[S \in SUBSET ts] ==
            IF S = {} THEN 0
            ELSE LET t == CHOOSE x \in S : TRUE IN CopiesIn(t, bag) + Sum[S \ {t}]
    IN Sum[ts]

\* The loadCurrentImage effect: the tasks it starts for cursor cur.
CurrentTasks(imgs, cur, key) ==
    IF key # NoKey /\ NeedsLoad(imgs[cur]) /\ ShouldFetch(imgs[cur])
    THEN {Task("cur", cur, imgs[cur], key, <<>>)}
    ELSE {}

\* The position of the cursor at completion time.
WriteIndexCursor(t, cur) == cur

\* The position a completion is written to: the index the closure captured.
WriteIndex(t, cur) == t.index

\* An updater that replaces every record from index on.
SetLoadedFrom(prev, index, loadedImage) ==
    [j \in DOMAIN prev |-> IF j >= index THEN loadedImage ELSE prev[j]]

\* setLoadedImages(prev => prev.map((img, i) => i === index ? loadedImage : img))
SetLoaded(prev, index, loadedImage) ==
    [j \in DOMAIN prev |-> IF j = index THEN loadedImage ELSE prev[j]]

\* indicesToPreload of preloadAdjacent, in source order.
IndicesToPreload(imgs, cur) ==
    SelectSeq(<<cur - 1, cur + 1>>,
              LAMBDA i : i >= 1 /\ i <= Len(imgs) /\ NeedsLoad(imgs[i]))

AddTasks(bag, ts) == bag (+) SetToBag(ts)

\* ------------------------------------------------------------------ Init
HarnessIdle ==
    /\ himage = Placeholder(1)
    /\ hkey = GoodKey
    /\ hresult = Placeholder(1)
    /\ hpc = "idle"
    /\ hfetched = FALSE
    /\ hcalls = 0

\* The viewer after its first render and the two mount effects.
ViewerInit ==
    /\ images = Placeholders
    /\ loadedImages = Placeholders
    /\ currentIndex = 1
    /\ imageLoaded = FALSE
    /\ apiKey \in ApiKeys
    /\ showExportDialog = FALSE
    /\ timer = TRUE
    /\ tasks = SetToBag(CurrentTasks(Placeholders, 1, apiKey))
    /\ isLoadingImage = (CurrentTasks(Placeholders, 1, apiKey) # {})
    /\ done = {}
    /\ fetches = Cardinality(CurrentTasks(Placeholders, 1, apiKey))

\* No processGPXData call is running and its locals are out of scope.
SamplerIdle ==
    /\ pc = "idle"
    /\ loopIndex = 0
    /\ accumulatedDistance = 0
    /\ lastSampledIndex = 0
    /\ sampledPoints = <<>>
    /\ sampledIndices = <<>>
    /\ totalDistance = 0
    /\ streetViewImages = <<>>

\* The pipeline as the viewer sees it: a run has delivered the sequence.
PipelineIdle ==
    /\ SamplerIdle
    /\ currentGPXData = <<>>
    /\ settingsIntervalDistance = DefaultInterval
    /\ intervalDistance = DefaultInterval
    /\ progress = NoProgress
    /\ isProcessing = FALSE
    /\ error = NoError
    /\ clearTimer = FALSE

\* No export is running; the dialog, when it opens, starts from its defaults.
ExportIdle ==
    /\ exportOptions = [format |-> "zip", includeMetadata |-> TRUE]
    /\ isExporting = FALSE
    /\ epc = "idle"
    /\ exportList = <<>>
    /\ exportIndex = 0
    /\ zipEntries = <<>>
    /\ zipMetadata = NoMetadata
    /\ saved = <<>>
    /\ alerted = FALSE
    /\ exportCalls = 0

\* No document is being parsed.
ParserIdle ==
    /\ gpxDoc = [xml |-> TRUE, gpx |-> TRUE, trks |-> <<>>]
    /\ ppc = "idle"
    /\ trackIndex = 0
    /\ pointIndex = 0
    /\ trackPoints = <<>>
    /\ tracks = <<>>
    /\ parseError = NoError

\* A signed-out user: no profile, no call of UserService.
CreditsIdle ==
    /\ profileExists = FALSE
    /\ credits = 0
    /\ openingCredits = 0
    /\ transactions = EmptyBag
    /\ creditCalls = <<>>
    /\ balanceResult = <<>>

\* Everything outside the viewer, the resolver harness, the pipeline and the
\* export is at rest.
OthersIdle == ParserIdle /\ CreditsIdle

Init == ViewerInit /\ HarnessIdle /\ PipelineIdle /\ ExportIdle /\ OthersIdle

\* --------------------------------------------------------------- actions
\* A turn that changed the cursor to c, then the render and the effects.
MoveTo(c) ==
    LET new == IF c # currentIndex THEN CurrentTasks(loadedImages, c, apiKey) ELSE {}
    IN /\ fetches + Cardinality(new) <= MaxFetches
       /\ fetches' = fetches + Cardinality(new)
       /\ currentIndex' = c
       /\ imageLoaded' = FALSE
       /\ tasks' = AddTasks(tasks, new)
       /\ isLoadingImage' = (isLoadingImage \/ new # {})
       /\ timer' = (timer \/ c # currentIndex)
       /\ done' = {}
       /\ UNCHANGED <<images, loadedImages, apiKey, showExportDialog>>
       /\ UNCHANGED outsideViewer

GoToNext == MoveTo((currentIndex % Len(loadedImages)) + 1)

GoToPrevious == MoveTo(((currentIndex - 2 + Len(loadedImages)) % Len(loadedImages)) + 1)

SelectIndex == \E v \in 1..Len(loadedImages) : MoveTo(v)

\* onLoad / onError of the <img>, which is rendered only for an error-free
\* image with a url while isLoadingImage is false.
HandleImageLoad ==
    /\ loadedImages[currentIndex].error = NoError
    /\ loadedImages[currentIndex].url # NoUrl
    /\ ~isLoadingImage
    /\ ~imageLoaded
    /\ imageLoaded' = TRUE
    /\ done' = {}
    /\ UNCHANGED <<images, loadedImages, currentIndex, isLoadingImage, apiKey,
                   showExportDialog, timer, tasks, fetches>>
    /\ UNCHANGED outsideViewer

\* A render of MainApp hands ImageViewer a new settings object (and possibly
\* a new apiKey): both effects run again.
ParentRender(key, dialog) ==
    LET new == CurrentTasks(loadedImages, currentIndex, key)
    IN /\ fetches + Cardinality(new) <= MaxFetches
       /\ fetches' = fetches + Cardinality(new)
       /\ apiKey' = key
       /\ showExportDialog' = dialog
       /\ tasks' = AddTasks(tasks, new)
       /\ isLoadingImage' = (isLoadingImage \/ new # {})
       /\ timer' = TRUE
       /\ done' = {}
       /\ UNCHANGED <<images, loadedImages, currentIndex, imageLoaded>>
       /\ UNCHANGED outsideViewer

\* handleSettingsChange
SettingsChange == \E key \in ApiKeys : ParentRender(key, showExportDialog)

\* The Export button of ImageViewer: onExport = setShowExportDialog(true).
\* The button is disabled while the viewer has no valid image.
OpenExportDialog ==
    /\ ~showExportDialog
    /\ ValidImages(loadedImages) # {}
    /\ ParentRender(apiKey, TRUE)

\* onClose of ExportDialog
CloseExportDialog ==
    /\ showExportDialog
    /\ ParentRender(apiKey, FALSE)

\* The preloadAdjacent timeout fires.
PreloadTimer ==
    LET idx == IF apiKey = NoKey THEN <<>> ELSE IndicesToPreload(loadedImages, currentIndex)
        queue == [k \in 1..Len(idx) |-> [index |-> idx[k], image |-> loadedImages[idx[k]]]]
        new == IF Len(idx) > 0 /\ ShouldFetch(queue[1].image)
               THEN {Task("pre", queue[1].index, queue[1].image, apiKey, Tail(queue))}
               ELSE {}
    IN /\ timer
       /\ fetches + Cardinality(new) <= MaxFetches
       /\ fetches' = fetches + Cardinality(new)
       /\ timer' = FALSE
       /\ tasks' = AddTasks(tasks, new)
       /\ done' = {}
       /\ UNCHANGED <<images, loadedImages, currentIndex, isLoadingImage, imageLoaded,
                      apiKey, showExportDialog>>
       /\ UNCHANGED outsideViewer

\* The image load of one resolution in flight settles: loadStreetViewImage
\* returns, the caller writes the record, a preloadAdjacent loop goes on to
\* its next index, React renders and runs the effects.
Complete(t, ok) ==
    LET result == LoadResult(t.image, t.apiKey, ok)
        target == WriteIndex(t, currentIndex)
        imgs == SetLoaded(loadedImages, target, result)
        rest == tasks (-) SetToBag({t})
        next == IF t.kind = "pre" /\ Len(t.queue) > 0 /\ ShouldFetch(t.queue[1].image)
                THEN {Task("pre", t.queue[1].index, t.queue[1].image, t.apiKey, Tail(t.queue))}
                ELSE {}
        retry == IF target = currentIndex THEN CurrentTasks(imgs, currentIndex, apiKey) ELSE {}
    IN /\ fetches + Cardinality(next) + Cardinality(retry) <= MaxFetches
       /\ fetches' = fetches + Cardinality(next) + Cardinality(retry)
       /\ loadedImages' = imgs
       /\ tasks' = AddTasks(AddTasks(rest, next), retry)
       /\ isLoadingImage' = IF retry # {} THEN TRUE
                            ELSE IF t.kind = "cur" THEN FALSE ELSE isLoadingImage
       /\ timer' = TRUE
       /\ done' = {[index |-> t.index, ok |-> ok]}
       /\ UNCHANGED <<images, currentIndex, imageLoaded, apiKey, showExportDialog>>
       /\ UNCHANGED outsideViewer

FetchDone == \E t \in BagToSet(tasks) : \E ok \in BOOLEAN : Complete(t, ok)

Next ==
    \/ GoToNext
    \/ GoToPrevious
    \/ SelectIndex
    \/ HandleImageLoad
    \/ SettingsChange
    \/ OpenExportDialog
    \/ CloseExportDialog
    \/ PreloadTimer
    \/ FetchDone

Spec == Init /\ [][Next]_vars

\* ------------------------------------------------- the resolver on its own
\* StreetViewImage records handed to loadStreetViewImage.
ImageRecords ==
    [id : 1..2, coordinates : {<<1, 0>>}, heading : {NoHeading, 0, 90}, pitch : {0},
     distance : {0, 50}, url : {NoUrl, <<1, 0, 0, GoodKey>>},
     error : {NoError, FetchFailed}, loaded : BOOLEAN, isLoading : BOOLEAN]

InitResolve ==
    /\ ViewerInit
    /\ PipelineIdle
    /\ ExportIdle
    /\ OthersIdle
    /\ himage \in ImageRecords
    /\ hkey \in ResolveKeys
    /\ hresult = himage
    /\ hpc = "idle"
    /\ hfetched = FALSE
    /\ hcalls = 0

\* loadStreetViewImage(himage, hkey) up to its first suspension or return.
HCall ==
    /\ hpc = "idle"
    /\ hcalls < MaxCalls
    /\ hcalls' = hcalls + 1
    /\ IF KeyMissing(hkey)
       THEN hpc' = "threw" /\ hfetched' = FALSE /\ UNCHANGED hresult
       ELSE IF ~ShouldFetch(himage)
       THEN hpc' = "returned" /\ hfetched' = FALSE /\ hresult' = himage
       ELSE hpc' = "fetching" /\ hfetched' = TRUE /\ UNCHANGED hresult
    /\ UNCHANGED <<himage, hkey>>
    /\ UNCHANGED outsideHarness

\* "await loadImage(url)" settles and loadStreetViewImage returns.
HFetchDone ==
    /\ hpc = "fetching"
    /\ \E ok \in BOOLEAN : hresult' = LoadResult(himage, hkey, ok)
    /\ hpc' = "returned"
    /\ UNCHANGED <<himage, hkey, hfetched, hcalls>>
    /\ UNCHANGED outsideHarness

\* The caller calls again, on the record the previous call returned.
HAgain ==
    /\ hpc \in {"returned", "threw"}
    /\ himage' = IF hpc = "returned" THEN hresult ELSE himage
    /\ hkey' \in ResolveKeys
    /\ hpc' = "idle"
    /\ hfetched' = FALSE
    /\ UNCHANGED <<hresult, hcalls>>
    /\ UNCHANGED outsideHarness

NextResolve ==
    \/ HCall
    \/ HFetchDone
    \/ HAgain

SpecResolve == InitResolve /\ [][NextResolve]_vars

\* ------------------------------------------- upload, sampling, generation
\* The files the uploader can hand over: parseGPXContent rejects a file
\* without tracks and extractTracks drops a track without points, so the
\* flattened point list of a parsed file has at least one point.
PointSeqs == UNION {[1..n -> GridPoints] : n \in 1..MaxPoints}

\* floor(sqrt(n)) by bisection on lo..hi.
RECURSIVE ISqrtBetween(_, _, _)
ISqrtBetween(n, lo, hi) ==
    IF lo >= hi THEN lo
    ELSE LET mid == (lo + hi + 1) \div 2
         IN  IF mid * mid <= n THEN ISqrtBetween(n, mid, hi)
             ELSE ISqrtBetween(n, lo, mid - 1)

\* calculateDistance, in centimetres.  Over a few grid steps at the equator
\* the haversine distance is the plane distance: the step length times the
\* square root of dlat^2 + dlon^2, rounded down.
CalculateDistance(a, b) ==
    LET dlat == b.lat - a.lat
        dlon == b.lon - a.lon
        n == (dlat * dlat + dlon * dlon) * GridStepCm * GridStepCm
    IN  ISqrtBetween(n, 0, 46340)

\* atan(k) in whole degrees for k = 1..6.
ArcTanDeg == <<45, 63, 72, 76, 79, 81>>

\* calculateBearing, in whole degrees.  Over a few grid steps at the equator
\* y = sin(dLon) cos(lat2) and x = the cross term are proportional to dlon and
\* dlat.  The result is Math.atan2(y, x) in degrees, in -180..180: the code
\* does not bring it into 0..360.
CalculateBearing(a, b) ==
    LET x == b.lat - a.lat
        y == b.lon - a.lon
        ay == IF y < 0 THEN -y ELSE y
        base == IF ay = 0 THEN 0 ELSE IF x = 0 THEN 90 ELSE ArcTanDeg[ay]
        angle == IF x >= 0 THEN base ELSE 180 - base
    IN  IF y < 0 THEN -angle ELSE angle

Progress(stage, current, total) == <<stage, current, total>>

\* processGPXData line 31: the run is refused.  generateStreetViewPlaceholders
\* (line 12) and samplePointsAtInterval (line 120) repeat the test, which
\* cannot succeed there.
TooFewPointsGuard(points) == Len(points) < 2

\* A catch block that leaves the progress as it is.
ProgressKept(current) == current

\* processGPXData lines 75-78: the progress the catch block leaves.
ProgressAfterFailure(current) == NoProgress

\* samplePointsAtInterval line 137: the point is appended.
IntervalReached(accumulated, interval) == accumulated >= interval

\* An accumulator that keeps the overshoot.
AccumulatorCarryOver(accumulated, interval) == accumulated - interval

\* samplePointsAtInterval line 139: the accumulator after an append.
AccumulatorAfterAppend(accumulated, interval) == 0

\* A sampler that ends with its walk.
AppendLastNever(sampled, points) == sampled

\* samplePointsAtInterval lines 145-150: the last input point closes the
\* sample unless the last sampled point has its coordinates.
AppendLast(sampled, points) ==
    LET lastPoint == points[Len(points)]
        lastSampledPoint == sampled[Len(sampled)]
    IN  IF lastSampledPoint.lat # lastPoint.lat \/ lastSampledPoint.lon # lastPoint.lon
        THEN Append(sampled, lastPoint)
        ELSE sampled

\* The heading taken from the leg that arrives at viewpoint i.
HeadingFromPrevious(sampled, i) ==
    IF i > 1 THEN CalculateBearing(sampled[i - 1], sampled[i]) ELSE 0

\* generateStreetViewPlaceholders lines 31-34: the heading of viewpoint i,
\* initialised to 0 and replaced by the bearing when there is a next point.
HeadingOf(sampled, i) ==
    IF i < Len(sampled) THEN CalculateBearing(sampled[i], sampled[i + 1]) ELSE 0

\* The straight distance from the first sampled point.
LegFromFirst(sampled, i) == CalculateDistance(sampled[1], sampled[i])

\* generateStreetViewPlaceholders lines 38-43: the leg that ends at sampled
\* point i.
LegBefore(sampled, i) == CalculateDistance(sampled[i - 1], sampled[i])

\* A total that shrinks by each leg.
DistanceCountingDown(total, sampled, i) ==
    IF i > 1 THEN total - LegBefore(sampled, i) ELSE total

\* generateStreetViewPlaceholders lines 37-44: the distance from the start.
DistanceFromStart(total, sampled, i) ==
    IF i > 1 THEN total + LegBefore(sampled, i) ELSE total

\* The length of the input path from point a to point b: the legs that
\* samplePointsAtInterval walks between the two.
RECURSIVE LegSum(_, _, _)
LegSum(points, a, b) ==
    IF b <= a THEN 0
    ELSE LegSum(points, a, b - 1) + CalculateDistance(points[b - 1], points[b])

\* The length of the polygon through the first k sampled points.
RECURSIVE OutputSum(_, _)
OutputSum(sampled, k) ==
    IF k <= 1 THEN 0
    ELSE OutputSum(sampled, k - 1) + CalculateDistance(sampled[k - 1], sampled[k])

\* Point p lies on the straight segment from a to b.
OnSegment(p, a, b) ==
    /\ (b.lat - a.lat) * (p.lon - a.lon) = (b.lon - a.lon) * (p.lat - a.lat)
    /\ (p.lat - a.lat) * (p.lat - b.lat) <= 0
    /\ (p.lon - a.lon) * (p.lon - b.lon) <= 0

\* generateStreetViewPlaceholders lines 46-54.
NewImage(i, point, heading, distance) ==
    [id |-> i, coordinates |-> <<point.lat, point.lon>>, heading |-> heading,
     pitch |-> 0, distance |-> distance, url |-> NoUrl, error |-> NoError,
     loaded |-> FALSE, isLoading |-> FALSE]

PipelineInit ==
    /\ SamplerIdle
    /\ images = <<>>
    /\ currentGPXData = <<>>
    /\ settingsIntervalDistance = DefaultInterval
    /\ intervalDistance = DefaultInterval
    /\ progress = NoProgress
    /\ isProcessing = FALSE
    /\ error = NoError
    /\ clearTimer = FALSE
    \* ImageViewer is not mounted.
    /\ loadedImages = <<>>
    /\ currentIndex = 1
    /\ isLoadingImage = FALSE
    /\ imageLoaded = FALSE
    /\ apiKey = NoKey
    /\ showExportDialog = FALSE
    /\ timer = FALSE
    /\ tasks = EmptyBag
    /\ fetches = 0
    /\ done = {}
    /\ HarnessIdle
    /\ ExportIdle
    /\ OthersIdle

\* GPXUploader hands a parsed file to handleGPXLoaded, which calls
\* processGPXData(gpxData, settings.intervalDistance).  The call runs to the
\* throw (fewer than two points) or into samplePointsAtInterval, up to the
\* head of its loop.  The uploader is rendered while there is no file and no
\* run.
HandleGPXLoaded ==
    /\ pc = "idle"
    /\ currentGPXData = <<>>
    /\ ~isProcessing
    /\ \E points \in PointSeqs :
       /\ currentGPXData' = points
       /\ intervalDistance' = settingsIntervalDistance
       /\ images' = <<>>
       /\ IF TooFewPointsGuard(points)
          THEN /\ error' = TooFewPoints
               /\ progress' = ProgressAfterFailure(Progress("parsing", 0, 1))
               /\ isProcessing' = FALSE
               /\ UNCHANGED pc
               /\ UNCHANGED samplerVars
          ELSE /\ error' = NoError
               /\ progress' = Progress("generating", 0, 0)
               /\ isProcessing' = TRUE
               /\ sampledPoints' = <<points[1]>>
               /\ sampledIndices' = <<1>>
               /\ accumulatedDistance' = 0
               /\ lastSampledIndex' = 1
               /\ loopIndex' = 2
               /\ pc' = "sampling"
               /\ UNCHANGED <<totalDistance, streetViewImages>>
       /\ UNCHANGED <<settingsIntervalDistance, clearTimer>>
       /\ UNCHANGED outsidePipeline

\* One iteration of the loop of samplePointsAtInterval.
SampleStep ==
    /\ pc = "sampling"
    /\ LET i == loopIndex
           distance == CalculateDistance(currentGPXData[i - 1], currentGPXData[i])
           accumulated == accumulatedDistance + distance
       IN  /\ IF IntervalReached(accumulated, intervalDistance)
              THEN /\ sampledPoints' = Append(sampledPoints, currentGPXData[i])
                   /\ sampledIndices' = Append(sampledIndices, i)
                   /\ accumulatedDistance' =
                          AccumulatorAfterAppend(accumulated, intervalDistance)
                   /\ lastSampledIndex' = i
              ELSE /\ accumulatedDistance' = accumulated
                   /\ UNCHANGED <<sampledPoints, sampledIndices, lastSampledIndex>>
           /\ loopIndex' = i + 1
           /\ pc' = IF i < Len(currentGPXData) THEN "sampling" ELSE "tail"
    /\ UNCHANGED <<totalDistance, streetViewImages>>
    /\ UNCHANGED <<images, currentGPXData, settingsIntervalDistance, intervalDistance,
                   progress, isProcessing, error, clearTimer>>
    /\ UNCHANGED outsidePipeline

\* The end of samplePointsAtInterval and the entry of the loop of
\* generateStreetViewPlaceholders.
SampleTail ==
    /\ pc = "tail"
    /\ sampledPoints' = AppendLast(sampledPoints, currentGPXData)
    /\ sampledIndices' = IF sampledPoints' # sampledPoints
                         THEN Append(sampledIndices, Len(currentGPXData))
                         ELSE sampledIndices
    /\ loopIndex' = 1
    /\ totalDistance' = 0
    /\ streetViewImages' = <<>>
    /\ pc' = "generating"
    /\ UNCHANGED <<accumulatedDistance, lastSampledIndex>>
    /\ UNCHANGED <<images, currentGPXData, settingsIntervalDistance, intervalDistance,
                   progress, isProcessing, error, clearTimer>>
    /\ UNCHANGED outsidePipeline

\* One iteration of the loop of generateStreetViewPlaceholders.
GenerateStep ==
    /\ pc = "generating"
    /\ LET i == loopIndex
           heading == HeadingOf(sampledPoints, i)
           total == DistanceFromStart(totalDistance, sampledPoints, i)
       IN  /\ totalDistance' = total
           /\ streetViewImages' =
                  Append(streetViewImages, NewImage(i, sampledPoints[i], heading, total))
           /\ progress' = Progress("generating", i, Len(sampledPoints))
           /\ loopIndex' = i + 1
           /\ pc' = IF i < Len(sampledPoints) THEN "generating" ELSE "await"
    /\ UNCHANGED <<accumulatedDistance, lastSampledIndex, sampledPoints, sampledIndices>>
    /\ UNCHANGED <<images, currentGPXData, settingsIntervalDistance, intervalDistance,
                   isProcessing, error, clearTimer>>
    /\ UNCHANGED outsidePipeline

\* generateStreetViewPlaceholders has returned: processGPXData continues
\* after its await, delivers the sequence and arms the timer that clears the
\* progress.  The locals go out of scope.
FinishProcessing ==
    /\ pc = "await"
    /\ IF Len(streetViewImages) = 0
       THEN /\ error' = NoPlaceholders
            /\ progress' = ProgressAfterFailure(progress)
            /\ UNCHANGED <<images, clearTimer>>
       ELSE /\ progress' = Progress("complete", Len(streetViewImages), Len(streetViewImages))
            /\ images' = streetViewImages
            /\ clearTimer' = TRUE
            /\ UNCHANGED error
    /\ isProcessing' = FALSE
    /\ pc' = "idle"
    /\ loopIndex' = 0
    /\ accumulatedDistance' = 0
    /\ lastSampledIndex' = 0
    /\ sampledPoints' = <<>>
    /\ sampledIndices' = <<>>
    /\ totalDistance' = 0
    /\ streetViewImages' = <<>>
    /\ UNCHANGED <<currentGPXData, settingsIntervalDistance, intervalDistance>>
    /\ UNCHANGED outsidePipeline

\* The 2000 ms timeout of processGPXData fires.
ClearProgress ==
    /\ pc = "idle"
    /\ clearTimer
    /\ clearTimer' = FALSE
    /\ progress' = NoProgress
    /\ UNCHANGED <<images, currentGPXData, settingsIntervalDistance, intervalDistance,
                   isProcessing, error, pc>>
    /\ UNCHANGED samplerVars
    /\ UNCHANGED outsidePipeline

\* SettingsPanel.handleSave calls handleSettingsChange, which stores the new
\* settings and does nothing else.
HandleSettingsChange ==
    /\ pc = "idle"
    /\ \E d \in Intervals :
       /\ d # settingsIntervalDistance
       /\ settingsIntervalDistance' = d
       /\ UNCHANGED <<images, currentGPXData, intervalDistance, progress, isProcessing,
                      error, clearTimer, pc>>
       /\ UNCHANGED samplerVars
       /\ UNCHANGED outsidePipeline

\* "Upload New" in the header of the viewer: reset() and setCurrentGPXData(null).
HandleNewUpload ==
    /\ pc = "idle"
    /\ Len(images) > 0
    /\ images' = <<>>
    /\ progress' = NoProgress
    /\ isProcessing' = FALSE
    /\ error' = NoError
    /\ currentGPXData' = <<>>
    /\ UNCHANGED <<settingsIntervalDistance, intervalDistance, clearTimer, pc>>
    /\ UNCHANGED samplerVars
    /\ UNCHANGED outsidePipeline

NextPipeline ==
    \/ HandleGPXLoaded
    \/ SampleStep
    \/ SampleTail
    \/ GenerateStep
    \/ FinishProcessing
    \/ ClearProgress
    \/ HandleSettingsChange
    \/ HandleNewUpload

SpecPipeline == PipelineInit /\ [][NextPipeline]_vars

\* ------------------------------------------------------------ the export
\* The viewpoint at position i of a sequence handed to the dialog, in one of
\* the load states a record can be in.
ExportRecord(i, loaded, err) ==
    [id |-> i, coordinates |-> <<0, i - 1>>, heading |-> 0, pitch |-> 0,
     distance |-> GridStepCm * (i - 1),
     url |-> IF loaded THEN <<0, i - 1, 0, GoodKey>> ELSE NoUrl,
     error |-> err, loaded |-> loaded, isLoading |-> FALSE]

ExportInputs ==
    UNION {{[i \in 1..n |-> ExportRecord(i, st[i].loaded, st[i].error)] :
               st \in [1..n -> [loaded : BOOLEAN, error : {NoError, FetchFailed}]]} :
           n \in 0..MaxExport}

\* "images.filter(img => img.loaded && !img.error)"
FilterValid(imgs) == SelectSeq(imgs, LAMBDA img : img.loaded /\ img.error = NoError)

\* A handler that exports whatever it is given.
NothingToExportNever(validImages) == FALSE

\* handleExport: "if (validImages.length === 0) return"
NothingToExport(validImages) == Len(validImages) = 0

\* formatDistance of a length in centimetres: whole metres below 1000 m,
\* tenths of a kilometre from there on.
FormatDistance(d) ==
    IF d < 100000 THEN <<(d + 50) \div 100, "m">>
    ELSE <<(d + 5000) \div 10000, "km">>

\* The name of the file of the image at position i of the exported list.
FileName(i, image) == <<i, FormatDistance(image.distance)>>

\* A summary that leaves out the last image.
GenerateMetadataWithoutLast(list) ==
    [i \in 1..(Len(list) - 1) |->
        [index |-> i, filename |-> FileName(i, list[i]),
         coordinates |-> list[i].coordinates, heading |-> list[i].heading,
         distance |-> list[i].distance,
         loaded |-> list[i].loaded, error |-> list[i].error]]

\* generateMetadata: one record for every image of the list, fetched or not.
GenerateMetadata(list) ==
    [i \in 1..Len(list) |->
        [index |-> i, filename |-> FileName(i, list[i]),
         coordinates |-> list[i].coordinates, heading |-> list[i].heading,
         distance |-> list[i].distance,
         loaded |-> list[i].loaded, error |-> list[i].error]]

\* A loop that runs from the end of the list.
NextToFetchFromEnd(list, from) ==
    LET c == {i \in from..Len(list) : list[i].loaded /\ list[i].error = NoError}
    IN  IF c = {} THEN Len(list) + 1 ELSE CHOOSE i \in c : \A j \in c : i >= j

\* The first position from `from` on that the loop does not skip with
\* "if (!image.loaded || image.error) continue"; Len(list) + 1 if none.
NextToFetch(list, from) ==
    LET c == {i \in from..Len(list) : list[i].loaded /\ list[i].error = NoError}
    IN  IF c = {} THEN Len(list) + 1 ELSE CHOOSE i \in c : \A j \in c : i <= j

\* exportImagesAsZip runs on from position `from`: to the next fetch, or
\* past the loop, through the metadata, to "await zip.generateAsync".
ZipContinue(list, from) ==
    LET i == NextToFetch(list, from)
    IN  /\ exportIndex' = i
        /\ IF i <= Len(list)
           THEN /\ epc' = "zipFetch"
                /\ zipMetadata' = NoMetadata
           ELSE /\ epc' = "zipGenerate"
                /\ zipMetadata' = IF exportOptions.includeMetadata
                                  THEN <<GenerateMetadata(list)>>
                                  ELSE NoMetadata

\* exportIndividualImages runs on from position `from`: to the next fetch,
\* or to its end and through the finally block of handleExport.
FileContinue(list, from) ==
    LET i == NextToFetch(list, from)
    IN  /\ exportIndex' = i
        /\ IF i <= Len(list)
           THEN /\ epc' = "fileFetch"
                /\ isExporting' = TRUE
                /\ UNCHANGED showExportDialog
           ELSE /\ epc' = "idle"
                /\ isExporting' = FALSE
                /\ showExportDialog' = FALSE

\* ImageViewer at rest next to the open dialog.
ExportInit ==
    /\ images \in ExportInputs
    /\ showExportDialog = TRUE
    /\ loadedImages = images
    /\ currentIndex = 1
    /\ isLoadingImage = FALSE
    /\ imageLoaded = FALSE
    /\ apiKey = GoodKey
    /\ timer = FALSE
    /\ tasks = EmptyBag
    /\ fetches = 0
    /\ done = {}
    /\ HarnessIdle
    /\ PipelineIdle
    /\ ExportIdle
    /\ OthersIdle

\* The selects of the dialog.
SetExportOptions ==
    /\ showExportDialog
    /\ epc = "idle"
    /\ \E f \in {"zip", "individual"} : \E m \in BOOLEAN :
       /\ exportOptions # [format |-> f, includeMetadata |-> m]
       /\ exportOptions' = [format |-> f, includeMetadata |-> m]
       /\ UNCHANGED <<isExporting, epc, exportList, exportIndex, zipEntries, zipMetadata,
                      saved, alerted, exportCalls, showExportDialog>>
       /\ UNCHANGED outsideExport

\* ExportDialog.handleExport up to its first suspension or its return.  The
\* Export button is disabled while validImages is empty; the handler repeats
\* the test.
HandleExport ==
    /\ showExportDialog
    /\ epc = "idle"
    /\ ~isExporting
    /\ exportCalls < MaxExportCalls
    /\ exportCalls' = exportCalls + 1
    /\ LET validImages == FilterValid(images)
       IN  IF NothingToExport(validImages)
           THEN UNCHANGED <<exportOptions, isExporting, epc, exportList, exportIndex,
                            zipEntries, zipMetadata, saved, alerted, showExportDialog>>
           ELSE /\ exportList' = validImages
                /\ zipEntries' = <<>>
                /\ IF exportOptions.format = "zip"
                   THEN /\ ZipContinue(validImages, 1)
                        /\ isExporting' = TRUE
                        /\ UNCHANGED showExportDialog
                   ELSE /\ FileContinue(validImages, 1)
                        /\ zipMetadata' = NoMetadata
                /\ UNCHANGED <<exportOptions, saved, alerted>>
    /\ UNCHANGED outsideExport

\* exportImagesAsZip: "await fetch(image.url)" and "await response.blob()"
\* settle; a failure is caught and logged.
ZipFetchDone ==
    /\ epc = "zipFetch"
    /\ \E ok \in BOOLEAN :
          zipEntries' = IF ok
                        THEN Append(zipEntries,
                                    FileName(exportIndex, exportList[exportIndex]))
                        ELSE zipEntries
    /\ ZipContinue(exportList, exportIndex + 1)
    /\ UNCHANGED <<exportOptions, isExporting, exportList, saved, alerted, exportCalls,
                   showExportDialog>>
    /\ UNCHANGED outsideExport

\* exportImagesAsZip: "await zip.generateAsync" settles; the archive is saved
\* or the error reaches the catch block of handleExport.  Then the finally
\* block runs.
ZipGenerated ==
    /\ epc = "zipGenerate"
    /\ \E ok \in BOOLEAN :
          IF ok
          THEN /\ saved' = Append(saved, [kind |-> "zip", entries |-> zipEntries,
                                          metadata |-> zipMetadata])
               /\ UNCHANGED alerted
          ELSE /\ alerted' = TRUE
               /\ UNCHANGED saved
    /\ epc' = "idle"
    /\ isExporting' = FALSE
    /\ showExportDialog' = FALSE
    /\ UNCHANGED <<exportOptions, exportList, exportIndex, zipEntries, zipMetadata,
                   exportCalls>>
    /\ UNCHANGED outsideExport

\* exportIndividualImages: the fetch settles; the file is saved and the
\* 100 ms delay starts, or the failure is caught and the loop goes on.
FileFetchDone ==
    /\ epc = "fileFetch"
    /\ \E ok \in BOOLEAN :
          IF ok
          THEN /\ saved' = Append(saved,
                              [kind |-> "jpg",
                               entries |-> <<FileName(exportIndex, exportList[exportIndex])>>,
                               metadata |-> NoMetadata])
               /\ epc' = "fileDelay"
               /\ UNCHANGED <<exportIndex, isExporting, showExportDialog>>
          ELSE /\ FileContinue(exportList, exportIndex + 1)
               /\ UNCHANGED saved
    /\ UNCHANGED <<exportOptions, exportList, zipEntries, zipMetadata, alerted,
                   exportCalls>>
    /\ UNCHANGED outsideExport

\* exportIndividualImages: the 100 ms delay is over.
FileDelayDone ==
    /\ epc = "fileDelay"
    /\ FileContinue(exportList, exportIndex + 1)
    /\ UNCHANGED <<exportOptions, exportList, zipEntries, zipMetadata, saved, alerted,
                   exportCalls>>
    /\ UNCHANGED outsideExport

\* Cancel, which is disabled while an export runs.
CancelExport ==
    /\ showExportDialog
    /\ ~isExporting
    /\ showExportDialog' = FALSE
    /\ UNCHANGED exportVars
    /\ UNCHANGED outsideExport

NextExport ==
    \/ SetExportOptions
    \/ HandleExport
    \/ ZipFetchDone
    \/ ZipGenerated
    \/ FileFetchDone
    \/ FileDelayDone
    \/ CancelExport

SpecExport == ExportInit /\ [][NextExport]_vars

\* ------------------------------------------------------------- the parser
\* An attribute of a trkpt element: absent, a text that is no number, or a
\* number.
MissingAttr == [kind |-> "missing", value |-> 0]
TextAttr == [kind |-> "text", value |-> 0]
NumberAttr(n) == [kind |-> "number", value |-> n]

\* The trkpt element at position j of track t.  Its numbers come from its
\* place in the document, so that every point can be recognised in the result.
RawPoint(kind, t, j) ==
    [lat |-> IF kind = "latMissing" THEN MissingAttr
             ELSE IF kind = "latText" THEN TextAttr ELSE NumberAttr(j),
     lon |-> IF kind = "lonText" THEN TextAttr ELSE NumberAttr(t)]

PointKinds == {"ok", "latMissing", "latText", "lonText"}

\* The trk elements of a document: up to two tracks of up to MaxTrackPoints
\* points, the points of the segments of a track taken together.
TrackCounts == 0..2
RawTrackLists ==
    UNION {{[t \in 1..n |-> [j \in 1..Len(kinds[t]) |-> RawPoint(kinds[t][j], t, j)]] :
               kinds \in [1..n -> UNION {[1..m -> PointKinds] : m \in 0..MaxTrackPoints}]} :
           n \in TrackCounts}

\* The documents handed to parseGPXContent: one that is not well-formed XML,
\* and documents with or without a gpx element.
RawDocs ==
    {[xml |-> FALSE, gpx |-> FALSE, trks |-> <<>>]} \cup
    {[xml |-> TRUE, gpx |-> g, trks |-> trks] : g \in BOOLEAN, trks \in RawTrackLists}

InvalidXml == "Invalid XML format"
MissingGpx == "Invalid GPX format: missing gpx element"
NoTracksFound == "No tracks found in GPX file"

\* "parseFloat(pointElement.getAttribute('lat') || '0')": an absent attribute
\* is read as 0, a text that is no number gives NaN.
ParseFloatAttr(attr) ==
    IF attr.kind = "text" THEN [nan |-> TRUE, value |-> 0]
    ELSE IF attr.kind = "missing" THEN [nan |-> FALSE, value |-> 0]
    ELSE [nan |-> FALSE, value |-> attr.value]

\* extractTracks lines 99-114: the points after one more trkpt element.
PushPoint(parsedPoints, element) ==
    LET lat == ParseFloatAttr(element.lat)
        lon == ParseFloatAttr(element.lon)
    IN  IF lat.nan \/ lon.nan THEN parsedPoints
        ELSE Append(parsedPoints, [lat |-> lat.value, lon |-> lon.value])

\* The points extractTracks keeps of one trk element.
RECURSIVE ExtractPoints(_)
ExtractPoints(elements) ==
    IF elements = <<>> THEN <<>>
    ELSE PushPoint(ExtractPoints(SubSeq(elements, 1, Len(elements) - 1)),
                   elements[Len(elements)])

\* A parser that keeps every track.
KeepTrackAlways(parsedPoints) == TRUE

\* extractTracks line 118: "if (points.length > 0)"
KeepTrack(parsedPoints) == Len(parsedPoints) > 0

ParseInit ==
    /\ gpxDoc \in RawDocs
    /\ ppc = "idle"
    /\ trackIndex = 0
    /\ pointIndex = 0
    /\ trackPoints = <<>>
    /\ tracks = <<>>
    /\ parseError = NoError
    /\ CreditsIdle
    /\ ViewerInit
    /\ apiKey = GoodKey
    /\ HarnessIdle
    /\ PipelineIdle
    /\ ExportIdle

\* parseGPXContent up to the first trk element of extractTracks.
ParseStart ==
    /\ ppc = "idle"
    /\ IF ~gpxDoc.xml
       THEN /\ parseError' = InvalidXml
            /\ ppc' = "threw"
            /\ UNCHANGED <<trackIndex, pointIndex>>
       ELSE IF ~gpxDoc.gpx
       THEN /\ parseError' = MissingGpx
            /\ ppc' = "threw"
            /\ UNCHANGED <<trackIndex, pointIndex>>
       ELSE /\ ppc' = "tracks"
            /\ trackIndex' = 1
            /\ pointIndex' = 1
            /\ UNCHANGED parseError
    /\ UNCHANGED <<gpxDoc, trackPoints, tracks>>
    /\ UNCHANGED outsideParser

\* extractTracks: one trkpt element of the current track.
ParsePoint ==
    /\ ppc = "tracks"
    /\ trackIndex <= Len(gpxDoc.trks)
    /\ pointIndex <= Len(gpxDoc.trks[trackIndex])
    /\ trackPoints' = PushPoint(trackPoints, gpxDoc.trks[trackIndex][pointIndex])
    /\ pointIndex' = pointIndex + 1
    /\ UNCHANGED <<gpxDoc, ppc, trackIndex, tracks, parseError>>
    /\ UNCHANGED outsideParser

\* extractTracks: the end of one trk element.
EndTrack ==
    /\ ppc = "tracks"
    /\ trackIndex <= Len(gpxDoc.trks)
    /\ pointIndex > Len(gpxDoc.trks[trackIndex])
    /\ tracks' = IF KeepTrack(trackPoints) THEN Append(tracks, trackPoints) ELSE tracks
    /\ trackPoints' = <<>>
    /\ trackIndex' = trackIndex + 1
    /\ pointIndex' = 1
    /\ UNCHANGED <<gpxDoc, ppc, parseError>>
    /\ UNCHANGED outsideParser

\* extractTracks has returned: parseGPXContent throws or returns the tracks.
ParseFinish ==
    /\ ppc = "tracks"
    /\ trackIndex > Len(gpxDoc.trks)
    /\ IF Len(tracks) = 0
       THEN parseError' = NoTracksFound /\ ppc' = "threw"
       ELSE ppc' = "returned" /\ UNCHANGED parseError
    /\ UNCHANGED <<gpxDoc, trackIndex, pointIndex, trackPoints, tracks>>
    /\ UNCHANGED outsideParser

NextParse ==
    \/ ParseStart
    \/ ParsePoint
    \/ EndTrack
    \/ ParseFinish

SpecParse == ParseInit /\ [][NextParse]_vars

\* ------------------------------------------------------------ the credits
\* UserService against the two tables user_profiles (one row of one user:
\* profileExists, credits) and credit_transactions (transactions, the bag
\* of the amounts recorded).  Every await of a query is a step of its own,
\* and calls may overlap.
CreditAmounts == 1..2
DefaultCredits == 100

\* The sum of the amounts in a bag of integers.
RECURSIVE BagSum(_)
BagSum(bag) ==
    IF BagToSet(bag) = {} THEN 0
    ELSE LET a == CHOOSE x \in BagToSet(bag) : TRUE
         IN  a + BagSum(bag (-) SetToBag({a}))

\* The change of the balance a call asks for.
SignedAmount(call) == IF call.kind = "deduct" THEN 0 - call.amount ELSE call.amount

\* "const newBalance = profile.credits -/+ amount"
NewBalance(call) == call.read + SignedAmount(call)

\* "profile.credits || 100": a falsy number is replaced by the default.
OrDefault(n) == IF n = 0 THEN DefaultCredits ELSE n

Returned(call, value) == [call EXCEPT !.pc = "returned", !.result = value]

CreditsInit ==
    /\ profileExists \in BOOLEAN
    /\ openingCredits \in (IF profileExists THEN 0..MaxCredits ELSE {0})
    /\ credits = openingCredits
    /\ transactions = EmptyBag
    /\ creditCalls = <<>>
    /\ balanceResult = <<>>
    /\ ViewerInit
    /\ apiKey = GoodKey
    /\ HarnessIdle
    /\ PipelineIdle
    /\ ExportIdle
    /\ ParserIdle

\* deductCredits or addCredits is called: it runs up to the await of getProfile.
StartCall ==
    /\ Len(creditCalls) < MaxCreditCalls
    /\ \E kind \in {"deduct", "add"} : \E amount \in CreditAmounts :
          creditCalls' = Append(creditCalls,
              [kind |-> kind, amount |-> amount, pc |-> "getProfile", read |-> 0,
               result |-> "pending"])
    /\ UNCHANGED <<profileExists, credits, openingCredits, transactions, balanceResult>>
    /\ UNCHANGED outsideCredits

\* getProfile of call c settles; the call runs up to the await of the update.
GetProfileDone(c) ==
    /\ creditCalls[c].pc = "getProfile"
    /\ \E ok \in BOOLEAN :
          LET call == [creditCalls[c] EXCEPT !.read = credits]
          IN  creditCalls' = [creditCalls EXCEPT ![c] =
                  IF ~ok \/ ~profileExists THEN Returned(creditCalls[c], "false")
                  ELSE IF call.kind = "deduct" /\ NewBalance(call) < 0
                       THEN Returned(call, "false")
                  ELSE [call EXCEPT !.pc = "update"]]
    /\ UNCHANGED <<profileExists, credits, openingCredits, transactions, balanceResult>>
    /\ UNCHANGED outsideCredits

\* The update of user_profiles of call c settles.
UpdateDone(c) ==
    /\ creditCalls[c].pc = "update"
    /\ \E ok \in BOOLEAN :
          IF ok
          THEN /\ credits' = NewBalance(creditCalls[c])
               /\ creditCalls' = [creditCalls EXCEPT ![c].pc = "insert"]
          ELSE /\ creditCalls' = [creditCalls EXCEPT ![c] = Returned(creditCalls[c], "false")]
               /\ UNCHANGED credits
    /\ UNCHANGED <<profileExists, openingCredits, transactions, balanceResult>>
    /\ UNCHANGED outsideCredits

\* The insert into credit_transactions of call c settles.  Its outcome is
\* not looked at: the call returns true.
InsertDone(c) ==
    /\ creditCalls[c].pc = "insert"
    /\ \E ok \in BOOLEAN :
          transactions' = IF ok THEN transactions (+) SetToBag({SignedAmount(creditCalls[c])})
                          ELSE transactions
    /\ creditCalls' = [creditCalls EXCEPT ![c] = Returned(creditCalls[c], "true")]
    /\ UNCHANGED <<profileExists, credits, openingCredits, balanceResult>>
    /\ UNCHANGED outsideCredits

\* getCreditBalance, from its call to its return; ok tells whether getProfile
\* succeeded.
GetCreditBalance ==
    /\ \E ok \in BOOLEAN :
          balanceResult' =
              <<[found |-> ok /\ profileExists,
                 stored |-> credits,
                 value |-> IF ~ok \/ ~profileExists THEN DefaultCredits
                           ELSE OrDefault(credits)]>>
    /\ UNCHANGED <<profileExists, credits, openingCredits, transactions, creditCalls>>
    /\ UNCHANGED outsideCredits

NextCredits ==
    \/ StartCall
    \/ \E c \in 1..Len(creditCalls) : GetProfileDone(c)
    \/ \E c \in 1..Len(creditCalls) : UpdateDone(c)
    \/ \E c \in 1..Len(creditCalls) : InsertDone(c)
    \/ GetCreditBalance

SpecCredits == CreditsInit /\ [][NextCredits]_vars

\* ------------------------------------------------- the viewer left alone
\* The viewer with the cursor held and no user input: only the preload timer
\* and the settling of image loads act.  The image loads are not counted
\* here (fetches stays as it is); the timer starts no load while
\* MaxInFlight loads are in flight.

\* The preloadAdjacent timeout fires.
HeldTimer ==
    LET idx == IF apiKey = NoKey THEN <<>> ELSE IndicesToPreload(loadedImages, currentIndex)
        queue == [k \in 1..Len(idx) |-> [index |-> idx[k], image |-> loadedImages[idx[k]]]]
        new == IF Len(idx) > 0 /\ ShouldFetch(queue[1].image)
               THEN {Task("pre", queue[1].index, queue[1].image, apiKey, Tail(queue))}
               ELSE {}
    IN /\ timer
       /\ BagCardinality(tasks) + Cardinality(new) <= MaxInFlight
       /\ timer' = FALSE
       /\ tasks' = AddTasks(tasks, new)
       /\ done' = {}
       /\ UNCHANGED <<images, loadedImages, currentIndex, isLoadingImage, imageLoaded,
                      apiKey, showExportDialog, fetches>>
       /\ UNCHANGED outsideViewer

\* The image load of one resolution in flight settles; the loadCurrentImage
\* effect runs again when the record under the cursor was replaced.
HeldComplete(t, ok) ==
    LET result == LoadResult(t.image, t.apiKey, ok)
        target == WriteIndex(t, currentIndex)
        imgs == SetLoaded(loadedImages, target, result)
        rest == tasks (-) SetToBag({t})
        next == IF t.kind = "pre" /\ Len(t.queue) > 0 /\ ShouldFetch(t.queue[1].image)
                THEN {Task("pre", t.queue[1].index, t.queue[1].image, t.apiKey, Tail(t.queue))}
                ELSE {}
        retry == IF target = currentIndex THEN CurrentTasks(imgs, currentIndex, apiKey) ELSE {}
    IN /\ loadedImages' = imgs
       /\ tasks' = AddTasks(AddTasks(rest, next), retry)
       /\ isLoadingImage' = IF retry # {} THEN TRUE
                            ELSE IF t.kind = "cur" THEN FALSE ELSE isLoadingImage
       /\ timer' = TRUE
       /\ done' = {[index |-> t.index, ok |-> ok]}
       /\ UNCHANGED <<images, currentIndex, imageLoaded, apiKey, showExportDialog, fetches>>
       /\ UNCHANGED outsideViewer

\* A load for viewpoint i settles.
HeldFetchDone(i) ==
    \E t \in BagToSet(tasks) : t.index = i /\ \E ok \in BOOLEAN : HeldComplete(t, ok)

NextHeld ==
    \/ HeldTimer
    \/ \E i \in 1..NumImages : HeldFetchDone(i)
    \/ HandleImageLoad

\* The browser fires a pending timeout, settles every image load and reports
\* the <img> element's load.
HeldFairness ==
    /\ WF_vars(HeldTimer)
    /\ \A i \in 1..NumImages : WF_vars(HeldFetchDone(i))
    /\ WF_vars(HandleImageLoad)

SpecHeld == Init /\ [][NextHeld]_vars /\ HeldFairness

\* ---------------------------------------------------------------- claims

\* C1: two resolutions requested for the same viewpoint result in exactly one
\* fetch: no viewpoint ever has more than one resolution in flight.
C1_OneFetchPerViewpoint ==
    \A i \in 1..Len(loadedImages) : InFlight(tasks, i) <= 1

\* C2: once a viewpoint is Loaded, no later write takes it out of Loaded.
C2_LoadedNeverRegresses ==
    [][\A i \in 1..Len(loadedImages) :
          LoadState(loadedImages[i]) = "Loaded" => LoadState(loadedImages'[i]) = "Loaded"]_vars

\* C3: a viewpoint carries a url iff it is Loaded and an error reason iff it
\* is Failed; none is both Loaded and carrying an error reason.
C3_ResourceIffLoadedErrorIffFailed ==
    \A i \in 1..Len(loadedImages) :
        /\ (loadedImages[i].url # NoUrl) <=> (LoadState(loadedImages[i]) = "Loaded")
        /\ (loadedImages[i].error # NoError) <=> (LoadState(loadedImages[i]) = "Failed")

\* C4: when an export is requested, the viewpoints the export dialog filters
\* as exportable are exactly the viewpoints the viewer counts as loaded.
C4_ExportInputIsViewerLoadedSet ==
    showExportDialog => ValidIds(images) = ValidIds(loadedImages)

\* C5: resolve on a Loaded or Loading record starts no fetch and returns the
\* record unchanged, however often it is applied.
C5_ResolveLoadedOrLoadingIsNoOp ==
    (himage.loaded \/ himage.isLoading) =>
        /\ hpc # "fetching"
        /\ ~hfetched
        /\ hpc = "returned" => hresult = himage

C5_Witness ==
    /\ hpc = "returned"
    /\ hcalls >= 2
    /\ himage.isLoading
    /\ hresult = himage

\* C6: a resolution of a Failed viewpoint ends as the resolution of the same
\* viewpoint in Pending would: on success Loaded with its url and no error
\* reason, on failure Failed.
C6_RetryEndsLikePending ==
    \A d \in done :
        /\ loadedImages[d.index] = LoadResult(Placeholders[d.index], GoodKey, d.ok)
        /\ IF d.ok
           THEN /\ loadedImages[d.index].loaded
                /\ loadedImages[d.index].url # NoUrl
                /\ loadedImages[d.index].error = NoError
           ELSE LoadState(loadedImages[d.index]) = "Failed"

\* C7: while a fetch for a viewpoint is in flight, the viewpoint is Loading
\* in the shared viewpoint sequence.
C7_InFlightIsLoading ==
    \A i \in 1..Len(loadedImages) :
        InFlight(tasks, i) > 0 => LoadState(loadedImages[i]) = "Loading"

\* C8: the neighbor prefetch never starts a fetch for a viewpoint that is
\* Loaded or has a resolution in flight when the fetch is started.
C8_PrefetchSkipsLoadedAndInFlight ==
    [][\A t \in BagToSet(tasks') :
          (t.kind = "pre" /\ CopiesIn(t, tasks') > CopiesIn(t, tasks)) =>
              /\ ~loadedImages[t.index].loaded
              /\ InFlight(tasks, t.index) = 0]_vars

\* C9: the completion of a resolution started for viewpoint i writes a
\* terminal state to viewpoint i itself, wherever the cursor is by then, and
\* leaves the viewpoint under the cursor alone when that is another one.
C9_CompletionWritesOwnViewpoint ==
    [][\A d \in done' :
          /\ loadedImages'[d.index].id = d.index
          /\ LoadState(loadedImages'[d.index]) = (IF d.ok THEN "Loaded" ELSE "Failed")
          /\ d.ok => loadedImages'[d.index].url =
                        GenerateStreetViewURL(Placeholders[d.index], GoodKey)
          /\ d.index # currentIndex' =>
                loadedImages'[currentIndex'] = loadedImages[currentIndex']]_vars

C9_Witness ==
    \E d \in done :
        /\ d.index # currentIndex
        /\ LoadState(loadedImages[d.index]) \in {"Loaded", "Failed"}
        /\ LoadState(loadedImages[currentIndex]) = "Pending"

\* C10: the write of a completion for viewpoint i changes viewpoint i only:
\* every other viewpoint, the length and order of the sequence and the id,
\* coordinates, heading and distance of every viewpoint stay as they were.
C10_CompletionFrame ==
    [][\A d \in done' :
          /\ Len(loadedImages') = Len(loadedImages)
          /\ \A j \in 1..Len(loadedImages) :
                /\ j # d.index => loadedImages'[j] = loadedImages[j]
                /\ loadedImages'[j].id = loadedImages[j].id
                /\ loadedImages'[j].coordinates = loadedImages[j].coordinates
                /\ loadedImages'[j].heading = loadedImages[j].heading
                /\ loadedImages'[j].distance = loadedImages[j].distance]_vars

C10_Witness ==
    \E d \in done :
        /\ d.ok
        /\ LoadState(loadedImages[d.index]) = "Loaded"
        /\ \E j \in 1..Len(loadedImages) :
              j # d.index /\ LoadState(loadedImages[j]) = "Failed"

\* C11: resolve with an empty credential fails and changes nothing: the call
\* ends by throwing, starts no fetch and leaves the record and the previous
\* result as they were.
C11_MissingKeyFailsWithoutEffect ==
    [][(hkey = NoKey /\ hpc = "idle" /\ hpc' # "idle") =>
          /\ hpc' = "threw"
          /\ ~hfetched'
          /\ himage' = himage
          /\ hresult' = hresult]_vars

C11_Witness ==
    /\ hpc = "threw"
    /\ hkey = NoKey
    /\ ShouldFetch(himage)
    /\ ~hfetched

\* C12: resolve with a credential that is present but fails the format check
\* fails before any fetch: a fetch is attempted only with a key that passes
\* validateApiKey, and a call with such a key never returns a record.
C12_InvalidKeyFailsBeforeFetch ==
    /\ hfetched => ValidateApiKey(hkey)
    /\ ~ValidateApiKey(hkey) => hpc \in {"idle", "threw"}

\* C13: while a viewpoint sequence exists, the stored intervalDistance is the
\* interval the sequence was sampled with (a change of the setting would
\* regenerate the sequence).
C13_StoredIntervalIsSampledInterval ==
    Len(images) > 0 => settingsIntervalDistance = intervalDistance

\* C14: for an input of at least two points the sample starts with the first
\* input point and ends with the coordinates of the last input point, also
\* when the last point lies less than one interval after the previous sample;
\* the delivered sequence starts and ends at the same coordinates.
C14_SampleKeepsEndpoints ==
    /\ pc \in {"generating", "await"} =>
          /\ sampledPoints[1] = currentGPXData[1]
          /\ sampledPoints[Len(sampledPoints)] = currentGPXData[Len(currentGPXData)]
    /\ (Len(images) > 0 /\ Len(currentGPXData) >= 2) =>
          /\ images[1].coordinates = <<currentGPXData[1].lat, currentGPXData[1].lon>>
          /\ images[Len(images)].coordinates =
                 <<currentGPXData[Len(currentGPXData)].lat,
                   currentGPXData[Len(currentGPXData)].lon>>

\* The last point was not reached by the interval and closes the sample.
C14_Witness ==
    /\ pc = "await"
    /\ lastSampledIndex < Len(currentGPXData)
    /\ accumulatedDistance > 0
    /\ accumulatedDistance < intervalDistance
    /\ sampledIndices[Len(sampledIndices)] = Len(currentGPXData)
    /\ Len(sampledPoints) >= 3

\* C15: in the walk, point i is appended exactly when the input legs walked
\* since the previously appended point add up to at least the interval, and
\* the accumulator then restarts from zero; otherwise it holds that sum.
\* Three points one grid step (50.04 m) apart at interval 50 m give exactly
\* three viewpoints with strictly increasing cumulative distance.
C15_AppendExactlyAtInterval ==
    /\ [][pc = "sampling" =>
            LET walked == LegSum(currentGPXData, lastSampledIndex, loopIndex)
            IN  IF walked >= intervalDistance
                THEN /\ sampledPoints' = Append(sampledPoints, currentGPXData[loopIndex])
                     /\ accumulatedDistance' = 0
                ELSE /\ sampledPoints' = sampledPoints
                     /\ accumulatedDistance' = walked]_vars
    /\ []((/\ pc = "await"
           /\ currentGPXData = <<[lat |-> 0, lon |-> 0], [lat |-> 0, lon |-> 1],
                                 [lat |-> 0, lon |-> 2]>>
           /\ intervalDistance = DefaultInterval) =>
             /\ Len(streetViewImages) = 3
             /\ streetViewImages[1].distance < streetViewImages[2].distance
             /\ streetViewImages[2].distance < streetViewImages[3].distance)

\* The three-point scenario has run, each leg overshooting the interval.
C15_Witness ==
    /\ pc = "await"
    /\ currentGPXData = <<[lat |-> 0, lon |-> 0], [lat |-> 0, lon |-> 1],
                          [lat |-> 0, lon |-> 2]>>
    /\ intervalDistance = DefaultInterval
    /\ sampledIndices = <<1, 2, 3>>
    /\ accumulatedDistance = 0

\* C16 as stated: every viewpoint but the last has the bearing towards the
\* next viewpoint as heading, and the last viewpoint has no heading.
C16_LastViewpointHasNoHeading ==
    pc = "await" =>
       /\ \A i \in 1..(Len(streetViewImages) - 1) :
             streetViewImages[i].heading =
                CalculateBearing(sampledPoints[i], sampledPoints[i + 1])
       /\ streetViewImages[Len(streetViewImages)].heading = NoHeading

\* C16 amended: every viewpoint but the last has the bearing towards the next
\* viewpoint as heading, and the last viewpoint has the heading 0.
C16_LastViewpointHasHeadingZero ==
    pc = "await" =>
       /\ \A i \in 1..(Len(streetViewImages) - 1) :
             streetViewImages[i].heading =
                CalculateBearing(sampledPoints[i], sampledPoints[i + 1])
       /\ streetViewImages[Len(streetViewImages)].heading = 0

\* A sequence whose first two headings differ from each other and from 0.
C16_Witness ==
    /\ pc = "await"
    /\ Len(streetViewImages) >= 3
    /\ streetViewImages[1].heading # 0
    /\ streetViewImages[2].heading # 0
    /\ streetViewImages[1].heading # streetViewImages[2].heading

\* C17: the cumulative distance of the first viewpoint is 0 and it never
\* decreases along the sequence, while it is built and once delivered.
C17_DistanceStartsAtZeroAndGrows ==
    /\ Len(streetViewImages) > 0 => streetViewImages[1].distance = 0
    /\ \A k \in 2..Len(streetViewImages) :
          streetViewImages[k - 1].distance <= streetViewImages[k].distance
    /\ Len(images) > 0 => images[1].distance = 0
    /\ \A k \in 2..Len(images) : images[k - 1].distance <= images[k].distance

\* A delivered sequence whose second leg is shorter than its first.
C17_Witness ==
    /\ Len(images) >= 3
    /\ images[2].distance > 0
    /\ images[3].distance > images[2].distance
    /\ images[3].distance - images[2].distance < images[2].distance

\* C18: the cumulative distance of viewpoint k is the sum of the distances
\* between consecutive sampled points up to k; it differs from the length of
\* the input path to that point whenever a skipped input point is off the
\* straight segment between the sampled points around it.
C18_DistanceAlongSampledPoints ==
    pc = "await" =>
       \A k \in 1..Len(streetViewImages) :
          /\ streetViewImages[k].distance = OutputSum(sampledPoints, k)
          /\ (\E m \in 2..k :
                 \E j \in (sampledIndices[m - 1] + 1)..(sampledIndices[m] - 1) :
                    ~OnSegment(currentGPXData[j], sampledPoints[m - 1], sampledPoints[m]))
              => streetViewImages[k].distance # LegSum(currentGPXData, 1, sampledIndices[k])

\* A skipped point off the line: the viewpoint's distance is shorter than the
\* input path.
C18_Witness ==
    /\ pc = "await"
    /\ Len(streetViewImages) = 2
    /\ sampledIndices = <<1, 3>>
    /\ ~OnSegment(currentGPXData[2], currentGPXData[1], currentGPXData[3])
    /\ streetViewImages[2].distance < LegSum(currentGPXData, 1, 3)

\* C19: a run on fewer than two points, or one that yields no viewpoints,
\* ends with an error message, an empty viewpoint sequence, no progress and
\* isProcessing false, and never enters sampling or generation.
C19_FailedRunLeavesNothing ==
    /\ (currentGPXData # <<>> /\ Len(currentGPXData) < 2) =>
          /\ error = TooFewPoints
          /\ SamplerIdle
    /\ error # NoError =>
          /\ images = <<>>
          /\ progress = NoProgress
          /\ ~isProcessing
          /\ streetViewImages = <<>>

\* A one-point file has been uploaded and refused.
C19_Witness ==
    /\ Len(currentGPXData) = 1
    /\ error = TooFewPoints
    /\ pc = "idle"

C21_NoArchiveWithoutImages ==
    /\ \A k \in 1..Len(saved) :
          saved[k].kind = "zip" => Len(saved[k].entries) > 0
    /\ (exportList # <<>> /\ exportOptions.format = "zip" /\ epc = "idle"
          /\ zipEntries = <<>>) => alerted

\* C22: an archive with metadata, made from N loaded and error-free
\* viewpoints, has exactly N metadata records, and record i describes the
\* i-th of these viewpoints in the order of the sequence.
C22_MetadataHasOneRecordPerViewpoint ==
    \A k \in 1..Len(saved) :
       (saved[k].kind = "zip" /\ saved[k].metadata # NoMetadata) =>
          LET records == saved[k].metadata[1]
              valid == FilterValid(images)
          IN  /\ Len(records) = Len(valid)
              /\ \A i \in 1..Len(records) :
                    /\ records[i].index = i
                    /\ records[i].coordinates = valid[i].coordinates
                    /\ records[i].distance = valid[i].distance

\* An archive with the records of two loaded viewpoints.
C22_Witness ==
    /\ Len(saved) = 1
    /\ saved[1].kind = "zip"
    /\ saved[1].metadata # NoMetadata
    /\ Len(saved[1].metadata[1]) = 2
    /\ Len(FilterValid(images)) = 2

\* C23: an export fetches one image at a time and in the order of the
\* sequence: each fetch that starts is for the position after the one
\* fetched before, and the files are added to the archive, or saved one by
\* one, with increasing positions.
C23_ExportIsSequential ==
    /\ [][(epc' \in {"zipFetch", "fileFetch"} /\ <<epc, exportIndex>> # <<epc', exportIndex'>>) =>
            /\ exportIndex' = (IF epc = "idle" THEN 0 ELSE exportIndex) + 1
            /\ exportIndex' <= Len(exportList')]_vars
    /\ [](\A k \in 1..Len(zipEntries) : \A l \in 1..Len(zipEntries) :
             k < l => zipEntries[k][1] < zipEntries[l][1])
    /\ [](\A k \in 1..Len(saved) : \A l \in 1..Len(saved) :
             (k < l /\ saved[k].kind = "jpg" /\ saved[l].kind = "jpg") =>
                saved[k].entries[1][1] < saved[l].entries[1][1])

\* The second image of an archive is being fetched after the first was added.
C23_Witness ==
    /\ epc = "zipFetch"
    /\ exportIndex = 2
    /\ Len(zipEntries) = 1

\* C28: in every archive saved with metadata the file names of the metadata
\* records are exactly the image entries of the archive, and no two image
\* entries have the same name.
C28_MetadataNamesAreArchiveEntries ==
    \A k \in 1..Len(saved) :
       (saved[k].kind = "zip" /\ saved[k].metadata # NoMetadata) =>
          LET records == saved[k].metadata[1]
              entries == saved[k].entries
          IN  /\ {records[i].filename : i \in 1..Len(records)} =
                    {entries[i] : i \in 1..Len(entries)}
              /\ \A i \in 1..Len(entries) : \A j \in 1..Len(entries) :
                    entries[i] = entries[j] => i = j

\* C26: the bearing is brought into the range from 0 up to, not including,
\* 360: every heading of a viewpoint, while the sequence is built and once
\* it is delivered, is at least 0 and below 360, and the bearing from a point
\* to itself is 0.
C26_HeadingWithinFullCircle ==
    /\ \A i \in 1..Len(streetViewImages) :
          streetViewImages[i].heading >= 0 /\ streetViewImages[i].heading < 360
    /\ \A i \in 1..Len(images) : images[i].heading >= 0 /\ images[i].heading < 360
    /\ \A a \in GridPoints : CalculateBearing(a, a) = 0

\* C24: of a track, every point whose lat or lon is absent or is no number
\* is dropped, and every other point is kept, in the order of the document.
C24_OnlyNumericPointsAreKept ==
    (ppc = "tracks" /\ trackIndex <= Len(gpxDoc.trks)
       /\ pointIndex > Len(gpxDoc.trks[trackIndex])) =>
       LET numeric == SelectSeq(gpxDoc.trks[trackIndex],
                                LAMBDA e : e.lat.kind = "number" /\ e.lon.kind = "number")
       IN  trackPoints = [i \in 1..Len(numeric) |->
                             [lat |-> numeric[i].lat.value, lon |-> numeric[i].lon.value]]

\* C25: a parsed document has the tracks that kept a point, in the order of
\* the document, and none without points; parsing fails for want of tracks
\* exactly when the document has a gpx element and none of its tracks kept a
\* point; a well-formed document without a gpx element is refused as such.
C25_ParsedTracksAreNonEmpty ==
    LET kept == SelectSeq([t \in 1..Len(gpxDoc.trks) |-> ExtractPoints(gpxDoc.trks[t])],
                          LAMBDA parsedPoints : parsedPoints # <<>>)
    IN  /\ ppc = "returned" =>
              /\ tracks = kept
              /\ \A t \in 1..Len(tracks) : Len(tracks[t]) > 0
        /\ (ppc \in {"returned", "threw"} /\ gpxDoc.xml /\ gpxDoc.gpx) =>
              (parseError = NoTracksFound <=> kept = <<>>)
        /\ (ppc \in {"returned", "threw"} /\ gpxDoc.xml /\ ~gpxDoc.gpx) =>
              (ppc = "threw" /\ parseError = MissingGpx)

\* A document whose first track lost its only point and whose second track
\* kept one.
C25_Witness ==
    /\ ppc = "returned"
    /\ Len(gpxDoc.trks) = 2
    /\ Len(gpxDoc.trks[1]) > 0
    /\ Len(tracks) = 1
    /\ tracks[1][1].lon = 2

\* C27: with the cursor held and no user input, the viewer comes to rest
\* for good: no resolution in flight and no preload timer pending.
C27_HeldViewerComesToRest == <>[](tasks = EmptyBag /\ ~timer)

\* C29: when every call of deductCredits and addCredits has returned and
\* each call that returned true has left its transaction, the stored balance
\* is the opening balance plus the sum of the recorded amounts.
C29_BalanceIsOpeningPlusTransactions ==
    LET trueCalls == {c \in 1..Len(creditCalls) : creditCalls[c].result = "true"}
    IN  (/\ \A c \in 1..Len(creditCalls) : creditCalls[c].pc = "returned"
         /\ BagCardinality(transactions) = Cardinality(trueCalls))
           => credits = openingCredits + BagSum(transactions)

\* C30: for a profile that exists and was read, getCreditBalance returns the
\* stored balance, 0 included.
C30_BalanceOfExistingProfileIsStored ==
    \A k \in 1..Len(balanceResult) :
        balanceResult[k].found => balanceResult[k].value = balanceResult[k].stored
====
